---- MODULE Spec2Model ----
(***************************************************************************)
(* pymap3d.eci: ECI <-> ECEF frame transforms.                             *)
(*                                                                         *)
(* float64 values are modelled as exact rationals <<n, d>> in lowest terms *)
(* ("equal up to rounding" is exact equality here); angles are sampled at  *)
(* the twelve directions whose sine and cosine are rational (quarter turns *)
(* and the 3-4-5 triangle).  An n-d array is a record of its shape and of  *)
(* its elements in row-major (ravel) order; a Python scalar has shape <<>>.*)
(***************************************************************************)
EXTENDS Integers, Sequences, FiniteSets, TLC

VARIABLES hasAstropy, pc, call, ret, origin, heap, thr, bufs

vars == <<hasAstropy, pc, call, ret, origin, heap, thr, bufs>>

seqVars == <<pc, call, ret, origin>>

concVars == <<heap, thr, bufs>>

-----------------------------------------------------------------------------
(* Bounds of the model *)

\* longest axis of a position array
MaxDim == 2

\* position arrays are ramps a + b*i; the seed picks the ramp
MaxSeed == 1

\* observation instants are 0 .. MaxInstant
MaxInstant == 3

\* concurrent callers
NThreads == 2

-----------------------------------------------------------------------------
(* float64 arithmetic, exact *)

RECURSIVE gcd(_, _)
gcd(a, b) == IF b = 0 THEN a ELSE gcd(b, a % b)

Abs(n) == IF n < 0 THEN -n ELSE n

Rat(n, d) == LET g == gcd(Abs(n), d) IN <<n \div g, d \div g>>

Float(n) == <<n, 1>>

Zero == Float(0)

One == Float(1)

Add(a, b) == Rat(a[1] * b[2] + b[1] * a[2], a[2] * b[2])

Mul(a, b) == Rat(a[1] * b[1], a[2] * b[2])

Neg(a) == <<-a[1], a[2]>>

\* 5*cos and 5*sin of the sampled angles, counter-clockwise from 0
Cos5 == <<5, 4, 3, 0, -3, -4, -5, -4, -3, 0, 3, 4>>

Sin5 == <<0, 3, 4, 5, 4, 3, 0, -3, -4, -5, -4, -3>>

Angles == 0 .. (Len(Cos5) - 1)

cos(a) == Rat(Cos5[a + 1], 5)

sin(a) == Rat(Sin5[a + 1], 5)

-----------------------------------------------------------------------------
(* numpy arrays *)

RECURSIVE Prod(_)
Prod(s) == IF s = <<>> THEN 1 ELSE Head(s) * Prod(Tail(s))

Array(shape, data) == [shape |-> shape, data |-> data]

size(a) == Prod(a.shape)

atleast_1d(a) == IF a.shape = <<>> THEN Array(<<1>>, a.data) ELSE a

ravel(a) == a.data

reshape(data, shape) == Array(shape, data)

squeeze(a) == Array(SelectSeq(a.shape, LAMBDA d : d # 1), a.data)

\* a[()] : a 0-d array becomes a scalar, anything else is returned as it is
getitem_empty(a) == a

column_stack(xs, ys, zs) == [i \in 1 .. Len(xs) |-> <<xs[i], ys[i], zs[i]>>]

Column(rows, j) == [i \in 1 .. Len(rows) |-> rows[i][j]]

\* numpy.broadcast_to(gst, n) as the code calls it: gst has one element
broadcast_to(gst, n) == Array(<<n>>, [i \in 1 .. n |-> gst.data[1]])

Transpose(M) == [i \in 1 .. 3 |-> [j \in 1 .. 3 |-> M[j][i]]]

MatVec(M, v) ==
  [i \in 1 .. 3 |-> Add(Add(Mul(M[i][1], v[1]), Mul(M[i][2], v[2])), Mul(M[i][3], v[3]))]

-----------------------------------------------------------------------------
(* Rotation matrix *)

R3_transposed(a) ==
  << <<cos(a), Neg(sin(a)), Zero>>, <<sin(a), cos(a), Zero>>, <<Zero, Zero, One>> >>

R3(a) ==
  << <<cos(a), sin(a), Zero>>, <<Neg(sin(a)), cos(a), Zero>>, <<Zero, Zero, One>> >>

-----------------------------------------------------------------------------
(* pymap3d.sidereal: instant -> Julian date -> Greenwich sidereal angle;   *)
(* both map over a batch of instants.                                      *)

juliandate(t) == Array(t.shape, [i \in 1 .. Len(t.data) |-> 2451545 + t.data[i]])

greenwichsrt(jd) ==
  Array(jd.shape, [i \in 1 .. Len(jd.data) |-> (7 * (jd.data[i] - 2451545) + 1) % Len(Cos5)])

-----------------------------------------------------------------------------
(* What a call gives back *)

Return(value, tried, transformed) ==
  [outcome |-> "ok", value |-> value, tried |-> tried, transformed |-> transformed]

Raise(exc, tried, transformed) ==
  [outcome |-> exc, value |-> <<>>, tried |-> tried, transformed |-> transformed]

-----------------------------------------------------------------------------
(* astropy (external): GCRS <-> ITRS at the observation instant.  The      *)
(* components and the instants broadcast against each other (numpy rules); *)
(* the frame rotation differs from the sidereal one by a small offset that *)
(* stands for precession, nutation and polar motion.                       *)

Max(a, b) == IF a >= b THEN a ELSE b

Pad(s, n) == [i \in 1 .. n |-> IF i <= n - Len(s) THEN 1 ELSE s[i - (n - Len(s))]]

Broadcastable(s1, s2) ==
  LET n == Max(Len(s1), Len(s2))
  IN  \A i \in 1 .. n : Pad(s1, n)[i] = Pad(s2, n)[i] \/ Pad(s1, n)[i] = 1 \/ Pad(s2, n)[i] = 1

BroadcastShape(s1, s2) ==
  LET n == Max(Len(s1), Len(s2))
  IN  [i \in 1 .. n |-> IF Pad(s1, n)[i] = 1 THEN Pad(s2, n)[i] ELSE Pad(s1, n)[i]]

Stride(shape, j) == Prod(SubSeq(shape, j + 1, Len(shape)))

RECURSIVE SumTo(_, _)
SumTo(f, n) == IF n = 0 THEN 0 ELSE f[n] + SumTo(f, n - 1)

\* element k (from 1, row-major) of array a broadcast to shape S
BroadcastElem(a, S, k) ==
  LET off == Len(S) - Len(a.shape)
      idx == [j \in 1 .. Len(S) |-> ((k - 1) \div Stride(S, j)) % S[j]]
      src == [j \in 1 .. Len(a.shape) |->
                (IF a.shape[j] = 1 THEN 0 ELSE idx[off + j]) * Stride(a.shape, j)]
  IN  a.data[1 + SumTo(src, Len(a.shape))]

astropy_angle(instant) == (greenwichsrt(juliandate(Array(<<>>, <<instant>>))).data[1] + 1) % Len(Cos5)

astropy_transform(x, y, z, t, toInertial) ==
  LET sxy == BroadcastShape(x.shape, y.shape)
      sxyz == BroadcastShape(sxy, z.shape)
      S == BroadcastShape(sxyz, t.shape)
      ok == /\ Broadcastable(x.shape, y.shape)
            /\ Broadcastable(sxy, z.shape)
            /\ Broadcastable(sxyz, t.shape)
      rot(k) == LET M == R3(astropy_angle(BroadcastElem(t, S, k)))
                IN  MatVec(IF toInertial THEN Transpose(M) ELSE M,
                           <<BroadcastElem(x, S, k), BroadcastElem(y, S, k), BroadcastElem(z, S, k)>>)
      rows == [k \in 1 .. Prod(S) |-> rot(k)]
  IN  IF ~ok THEN Raise("ValueError", <<"A">>, {})
      ELSE Return(<<Array(S, Column(rows, 1)), Array(S, Column(rows, 2)), Array(S, Column(rows, 3))>>,
                  <<"A">>, {"A"})

-----------------------------------------------------------------------------
(* pymap3d.eci *)

SizesAgree_lax(n, m) == n <= m

\* assert x.size == gst.size
SizesAgree(n, m) == n = m

eci2ecef_numpy(x, y, z, t) ==
  LET x1 == atleast_1d(x)
      y1 == atleast_1d(y)
      z1 == atleast_1d(z)
      gst0 == atleast_1d(greenwichsrt(juliandate(t)))
      gst == IF size(gst0) = 1 /\ size(x1) # 1 THEN broadcast_to(gst0, x1.shape[1]) ELSE gst0
      eci == column_stack(ravel(x1), ravel(y1), ravel(z1))
      ecef == [i \in 1 .. size(x1) |-> MatVec(R3(gst.data[i]), eci[i])]
      x_ecef == reshape(Column(ecef, 1), x1.shape)
      y_ecef == reshape(Column(ecef, 2), y1.shape)
      z_ecef == reshape(Column(ecef, 3), z1.shape)
  IN  IF ~(x1.shape = y1.shape /\ y1.shape = z1.shape) THEN Raise("AssertionError", <<"B">>, {})
      ELSE IF ~SizesAgree(size(x1), size(gst)) THEN Raise("AssertionError", <<"B">>, {})
      ELSE Return(<<getitem_empty(squeeze(x_ecef)), getitem_empty(squeeze(y_ecef)),
                    getitem_empty(squeeze(z_ecef))>>, <<"B">>, {"B"})

\* the run after an earlier attempt: the attempts so far come first
After(first, r) ==
  [r EXCEPT !.tried = first.tried \o r.tried, !.transformed = first.transformed \cup r.transformed]

eci2ecef_astropy_fallback(x, y, z, t) ==
  IF hasAstropy THEN astropy_transform(x, y, z, t, FALSE)
  ELSE After(Raise("NameError", <<"A">>, {}), eci2ecef_numpy(x, y, z, t))

\* the names astropy's import would have bound are looked up when the call runs
eci2ecef_astropy(x, y, z, t) ==
  IF hasAstropy THEN astropy_transform(x, y, z, t, FALSE)
  ELSE Raise("NameError", <<"A">>, {})

eci2ecef_nocatch(x, y, z, time) == eci2ecef_astropy(x, y, z, time)

eci2ecef(x, y, z, time) ==
  LET r == eci2ecef_astropy(x, y, z, time)
  IN  IF r.outcome = "NameError" THEN After(r, eci2ecef_numpy(x, y, z, time)) ELSE r

ecef2eci(x, y, z, time) ==
  LET x1 == atleast_1d(x)
      y1 == atleast_1d(y)
      z1 == atleast_1d(z)
      gst == atleast_1d(greenwichsrt(juliandate(time)))
      ecef == column_stack(ravel(x1), ravel(y1), ravel(z1))
      eci == [i \in 1 .. size(x1) |-> MatVec(Transpose(R3(gst.data[i])), ecef[i])]
      x_eci == reshape(Column(eci, 1), x1.shape)
      y_eci == reshape(Column(eci, 2), y1.shape)
      z_eci == reshape(Column(eci, 3), z1.shape)
      tryA == Raise("NameError", <<"A">>, {})
  IN  IF hasAstropy THEN astropy_transform(x, y, z, time, TRUE)
      ELSE IF ~(x1.shape = y1.shape /\ y1.shape = z1.shape)
           THEN After(tryA, Raise("AssertionError", <<"B">>, {}))
      ELSE IF ~SizesAgree(size(x1), size(gst))
           THEN After(tryA, Raise("AssertionError", <<"B">>, {}))
      ELSE After(tryA, Return(<<x_eci, y_eci, z_eci>>, <<"B">>, {"B"}))

-----------------------------------------------------------------------------
(* Calls, one at a time *)

Entries == {"eci2ecef", "eci2ecef_astropy", "eci2ecef_numpy", "ecef2eci"}

\* every entry point takes x, y, z and the instant, and nothing else
Params(entry) == IF entry = "ecef2eci" THEN {"x", "y", "z", "time"} ELSE {"x", "y", "z", "t"}

Dispatch(entry, kwargs, x, y, z, t) ==
  IF ~(kwargs \subseteq Params(entry)) THEN Raise("TypeError", <<>>, {})
  ELSE CASE entry = "eci2ecef" -> eci2ecef(x, y, z, t)
         [] entry = "eci2ecef_astropy" -> eci2ecef_astropy(x, y, z, t)
         [] entry = "eci2ecef_numpy" -> eci2ecef_numpy(x, y, z, t)
         [] entry = "ecef2eci" -> ecef2eci(x, y, z, t)

Shapes ==
  {<<>>} \cup {<<n>> : n \in 1 .. MaxDim} \cup {<<n, m>> : n \in 1 .. MaxDim, m \in 1 .. MaxDim}

\* the shape of the component that differs from the other two, when one does
OddShapes == {<<>>, <<1>>, <<MaxDim + 1>>}

Ramp(shape, a, b) == Array(shape, [i \in 1 .. Prod(shape) |-> Float(a + b * (i - 1))])

\* one instant (shape <<>>) or a batch of m instants
TimeShapes(n) == {<<>>} \cup {<<m>> : m \in {1, 2, n, n + 1}}

Instants(shape, t0) == Array(shape, [i \in 1 .. Prod(shape) |-> (t0 + i - 1) % (MaxInstant + 1)])

Empty == Array(<<>>, <<>>)

NoCall == [entry |-> "none", kwargs |-> {}, x |-> Empty, y |-> Empty, z |-> Empty, t |-> Empty]

NoRet == [outcome |-> "none", value |-> <<>>, tried |-> <<>>, transformed |-> {}]

NoOrigin == [set |-> FALSE, entry |-> "none", x |-> Empty, y |-> Empty, z |-> Empty]

Threads == 1 .. NThreads

\* the callers' arrays, which concurrent calls may share: three of two points
\* each, and a scalar
HeapInit == <<Ramp(<<2>>, 1, 1), Ramp(<<2>>, -1, 2), Ramp(<<2>>, 4, -1), Ramp(<<>>, 2, 0)>>

\* the (x, y, z) a concurrent call is given, as indices into the heap
ArgRefs == {<<1, 2, 3>>, <<4, 4, 4>>, <<1, 4, 3>>}

ConcEntries == {"eci2ecef", "ecef2eci", "eci2ecef_numpy"}

IdleThread ==
  [pc |-> "idle", entry |-> "none", args |-> <<>>, t |-> Empty, shape |-> <<>>,
   rows |-> <<>>, gst |-> <<>>, i |-> 0, buf |-> 0, ret |-> NoRet]

Init ==
  /\ hasAstropy \in BOOLEAN
  /\ pc = "idle"
  /\ call = NoCall
  /\ ret = NoRet
  /\ origin = NoOrigin
  /\ heap = HeapInit
  /\ thr = [tid \in Threads |-> IdleThread]
  /\ bufs = [tid \in Threads |-> <<>>]

Invoke(entry, kwargs) ==
  /\ pc = "idle"
  /\ \E s \in Shapes, odd \in {"none", "x", "y", "z"}, so \in OddShapes,
        v \in 0 .. MaxSeed, t0 \in 0 .. MaxInstant :
       \E ts \in TimeShapes(Prod(s)) :
         LET x == Ramp(IF odd = "x" THEN so ELSE s, v + 1, 1)
             y == Ramp(IF odd = "y" THEN so ELSE s, 2 - 3 * v, 2)
             z == Ramp(IF odd = "z" THEN so ELSE s, 3 + v, -1)
             t == Instants(ts, t0)
         IN  /\ call' = [entry |-> entry, kwargs |-> kwargs, x |-> x, y |-> y, z |-> z, t |-> t]
             /\ ret' = Dispatch(entry, kwargs, x, y, z, t)
  /\ pc' = "done"
  /\ UNCHANGED <<hasAstropy, origin, concVars>>

Call_eci2ecef == Invoke("eci2ecef", {})

Call_eci2ecef_astropy == Invoke("eci2ecef_astropy", {})

Call_eci2ecef_numpy == Invoke("eci2ecef_numpy", {})

Call_ecef2eci == \E kwargs \in {{}, {"force_non_astropy"}} : Invoke("ecef2eci", kwargs)

\* ecef2eci(*eci2ecef(x, y, z, t), t), and the same after eci2ecef_numpy
Call_ecef2eci_on_result ==
  /\ pc = "done"
  /\ ~origin.set
  /\ call.entry \in {"eci2ecef", "eci2ecef_numpy"}
  /\ ret.outcome = "ok"
  /\ origin' = [set |-> TRUE, entry |-> call.entry, x |-> call.x, y |-> call.y, z |-> call.z]
  /\ call' = [entry |-> "ecef2eci", kwargs |-> {}, x |-> ret.value[1], y |-> ret.value[2],
              z |-> ret.value[3], t |-> call.t]
  /\ ret' = Dispatch("ecef2eci", {}, ret.value[1], ret.value[2], ret.value[3], call.t)
  /\ UNCHANGED <<hasAstropy, pc, concVars>>

\* the caller drops the result; nothing of the call is kept
Discard ==
  /\ pc = "done"
  /\ pc' = "idle"
  /\ call' = NoCall
  /\ ret' = NoRet
  /\ origin' = NoOrigin
  /\ UNCHANGED <<hasAstropy, concVars>>

Next ==
  \/ Call_eci2ecef
  \/ Call_eci2ecef_astropy
  \/ Call_eci2ecef_numpy
  \/ Call_ecef2eci
  \/ Call_ecef2eci_on_result
  \/ Discard

Spec == Init /\ [][Next]_vars

-----------------------------------------------------------------------------
(* Concurrent calls.  A call's steps: the attempt with astropy and the     *)
(* coercion and assertions (Start), one step per row of the loop           *)
(* (LoopStep), the reshaping of the result (Finish).  Each call reads the  *)
(* callers' arrays from the shared heap and fills the array numpy.empty    *)
(* gave it.                                                                *)

\* numpy.empty memory before it is written; the loop writes every row before
\* any row is read
Unwritten == <<Zero, Zero, Zero>>

BufferOf_shared(tid) == 1

\* numpy.empty((x.size, 3)): a fresh array for each call
BufferOf(tid) == tid

Begin(tid) ==
  /\ thr[tid].pc = "idle"
  /\ \E entry \in ConcEntries, args \in ArgRefs, t0 \in {0, 1} :
       thr' = [thr EXCEPT ![tid] =
                 [IdleThread EXCEPT !.pc = "start", !.entry = entry, !.args = args,
                                    !.t = Instants(<<>>, t0)]]
  /\ UNCHANGED <<hasAstropy, seqVars, heap, bufs>>

Start(tid) ==
  LET me == thr[tid]
      forward == me.entry # "ecef2eci"
      auto == me.entry # "eci2ecef_numpy"
      x == heap[me.args[1]]
      y == heap[me.args[2]]
      z == heap[me.args[3]]
      x1 == atleast_1d(x)
      y1 == atleast_1d(y)
      z1 == atleast_1d(z)
      gst0 == atleast_1d(greenwichsrt(juliandate(me.t)))
      gst == IF forward /\ size(gst0) = 1 /\ size(x1) # 1
             THEN broadcast_to(gst0, x1.shape[1]) ELSE gst0
      tryA == Raise("NameError", <<"A">>, {})
      fail == Raise("AssertionError", <<"B">>, {})
      end(r) == /\ thr' = [thr EXCEPT ![tid].pc = "done", ![tid].ret = r]
                /\ UNCHANGED bufs
  IN  /\ me.pc = "start"
      /\ IF auto /\ hasAstropy THEN end(astropy_transform(x, y, z, me.t, ~forward))
         ELSE IF ~(x1.shape = y1.shape /\ y1.shape = z1.shape) \/ ~SizesAgree(size(x1), size(gst))
         THEN end(IF auto THEN After(tryA, fail) ELSE fail)
         ELSE /\ thr' = [thr EXCEPT ![tid].pc = "loop", ![tid].i = 1, ![tid].buf = BufferOf(tid),
                                    ![tid].shape = x1.shape, ![tid].gst = gst.data,
                                    ![tid].rows = column_stack(ravel(x1), ravel(y1), ravel(z1))]
              /\ bufs' = [bufs EXCEPT ![BufferOf(tid)] = [k \in 1 .. size(x1) |-> Unwritten]]
      /\ UNCHANGED <<hasAstropy, seqVars, heap>>

LoopStep(tid) ==
  LET me == thr[tid]
      M == IF me.entry = "ecef2eci" THEN Transpose(R3(me.gst[me.i])) ELSE R3(me.gst[me.i])
      b == bufs[me.buf]
  IN  /\ me.pc = "loop"
      /\ me.i <= Len(me.rows)
      /\ bufs' = [bufs EXCEPT ![me.buf] =
                    [k \in 1 .. Max(Len(b), me.i) |->
                       IF k = me.i THEN MatVec(M, me.rows[me.i])
                       ELSE IF k <= Len(b) THEN b[k] ELSE Unwritten]]
      /\ thr' = [thr EXCEPT ![tid].i = me.i + 1]
      /\ UNCHANGED <<hasAstropy, seqVars, heap>>

Finish(tid) ==
  LET me == thr[tid]
      b == bufs[me.buf]
      n == Len(me.rows)
      out == [k \in 1 .. n |-> IF k <= Len(b) THEN b[k] ELSE Unwritten]
      col(j) == reshape(Column(out, j), me.shape)
      value == IF me.entry = "ecef2eci" THEN <<col(1), col(2), col(3)>>
               ELSE <<getitem_empty(squeeze(col(1))), getitem_empty(squeeze(col(2))),
                      getitem_empty(squeeze(col(3)))>>
      r == Return(value, <<"B">>, {"B"})
  IN  /\ me.pc = "loop"
      /\ me.i > n
      /\ thr' = [thr EXCEPT ![tid].pc = "done",
                            ![tid].ret = IF me.entry = "eci2ecef_numpy" THEN r
                                         ELSE After(Raise("NameError", <<"A">>, {}), r)]
      /\ UNCHANGED <<hasAstropy, seqVars, heap, bufs>>

\* the caller takes the result; the call's arrays go with it
Collect(tid) ==
  /\ thr[tid].pc = "done"
  /\ thr' = [thr EXCEPT ![tid] = IdleThread]
  /\ bufs' = IF thr[tid].buf \in DOMAIN bufs THEN [bufs EXCEPT ![thr[tid].buf] = <<>>] ELSE bufs
  /\ UNCHANGED <<hasAstropy, seqVars, heap>>

NextConc ==
  \E tid \in Threads :
    \/ Begin(tid)
    \/ Start(tid)
    \/ LoopStep(tid)
    \/ Finish(tid)
    \/ Collect(tid)

SpecConc == Init /\ [][NextConc]_vars

\* what the call of thread tid returns when it runs alone
Alone(tid) ==
  LET me == thr[tid]
  IN  Dispatch(me.entry, {}, HeapInit[me.args[1]], HeapInit[me.args[2]], HeapInit[me.args[3]], me.t)

-----------------------------------------------------------------------------
(* Properties of a finished call *)

Finished == pc = "done"

Sub(a, b) == Add(a, Neg(b))

SameShapes == call.x.shape = call.y.shape /\ call.y.shape = call.z.shape

\* number of points and of sidereal angles of the call
NPoints == Prod(call.x.shape)

NAngles == Prod(call.t.shape)

RanB == \E i \in 1 .. Len(ret.tried) : ret.tried[i] = "B"

\* the sidereal angle that belongs to point i
Theta(i) ==
  LET g == greenwichsrt(juliandate(call.t)).data IN IF Len(g) = 1 THEN g[1] ELSE g[i]

\* R(theta_i) . (x_i, y_i, z_i), written out
Forward(i) ==
  LET c == cos(Theta(i))
      s == sin(Theta(i))
      xi == call.x.data[i]
      yi == call.y.data[i]
  IN  <<Add(Mul(xi, c), Mul(yi, s)), Add(Neg(Mul(xi, s)), Mul(yi, c)), call.z.data[i]>>

\* R(theta_i)^T . (x_i, y_i, z_i), written out
Backward(i) ==
  LET c == cos(Theta(i))
      s == sin(Theta(i))
      xi == call.x.data[i]
      yi == call.y.data[i]
  IN  <<Sub(Mul(xi, c), Mul(yi, s)), Add(Mul(xi, s), Mul(yi, c)), call.z.data[i]>>

Rotated(i) == IF call.entry = "ecef2eci" THEN Backward(i) ELSE Forward(i)

RowWise ==
  /\ \A k \in 1 .. 3 : Len(ret.value[k].data) = NPoints
  /\ \A i \in 1 .. NPoints : <<ret.value[1].data[i], ret.value[2].data[i], ret.value[3].data[i]>> = Rotated(i)

C2_InverseLaw ==
  (Finished /\ origin.set /\ (origin.entry = "eci2ecef" \/ ~hasAstropy)
     /\ origin.x.shape = origin.y.shape /\ origin.y.shape = origin.z.shape
     /\ call.t.shape = <<>>) =>
    /\ ret.outcome = "ok"
    /\ ret.value[1].data = origin.x.data
    /\ ret.value[2].data = origin.y.data
    /\ ret.value[3].data = origin.z.data

\* C3: a successful call at one instant on x, y, z of one shape S (scalar
\* included, and shapes with axes of length 1) returns three outputs of exactly
\* shape S.
C3_ShapePreserved ==
  (Finished /\ ret.outcome = "ok" /\ SameShapes /\ call.t.shape = <<>>) =>
    \A k \in 1 .. 3 : ret.value[k].shape = call.x.shape

\* C4: on the sidereal-rotation path, N > 1 points of any shape with a single
\* sidereal angle succeed, every point rotated by that one angle.
C4_SingleAngleBroadcast ==
  (Finished /\ RanB /\ SameShapes /\ NPoints > 1 /\ NAngles = 1) =>
    (ret.outcome = "ok" /\ RowWise)

\* C5: ecef2eci(x, y, z, t, force_non_astropy=True) runs the sidereal rotation
\* directly, whether or not astropy is there, and never astropy.
C5_ForcedStrategyB ==
  (Finished /\ call.entry = "ecef2eci" /\ "force_non_astropy" \in call.kwargs) =>
    (ret.tried = <<"B">> /\ ret.outcome \in {"ok", "AssertionError"})

\* C6: on eci2ecef, ecef2eci and eci2ecef_numpy, with or without astropy, x, y, z
\* that are not all of one shape fail validation before any transform runs, and
\* nothing is returned.
C6_ShapeMismatchRejected ==
  (Finished /\ call.entry \in {"eci2ecef", "ecef2eci", "eci2ecef_numpy"} /\ call.kwargs = {}
     /\ ~SameShapes) =>
    /\ ret.outcome \in {"AssertionError", "ValueError"}
    /\ ret.transformed = {}
    /\ ret.value = <<>>

\* C7: on the sidereal-rotation path of either direction, M > 1 sidereal angles
\* for N # M points fail with an AssertionError and return nothing.
C7_AngleCountMismatchRejected ==
  (Finished /\ RanB /\ NAngles > 1 /\ NAngles # NPoints) =>
    (ret.outcome = "AssertionError" /\ ret.value = <<>> /\ ret.transformed = {})

C7_Witness ==
  /\ Finished
  /\ call.entry = "ecef2eci"
  /\ RanB
  /\ SameShapes
  /\ NPoints = 2
  /\ NAngles = 3
  /\ ret.outcome = "AssertionError"

\* C8: eci2ecef_astropy without astropy fails with a NameError: no fallback to
\* the sidereal rotation, no result.
C8_AstropyOnlyFails ==
  (Finished /\ call.entry = "eci2ecef_astropy" /\ ~hasAstropy) =>
    /\ ret.outcome = "NameError"
    /\ ret.value = <<>>
    /\ ~RanB
    /\ ret.transformed = {}

C8_Witness ==
  /\ Finished
  /\ call.entry = "eci2ecef_astropy"
  /\ ~hasAstropy
  /\ SameShapes
  /\ ret.outcome = "NameError"

\* C10: the sidereal rotation is row-wise: point i of ECI->ECEF is
\* (x cos + y sin, -x sin + y cos, z) at its angle theta_i, point i of ECEF->ECI
\* is (x cos - y sin, x sin + y cos, z); z comes back unchanged.
C10_RowWiseRotation ==
  (Finished /\ ret.outcome = "ok" /\ ret.transformed = {"B"}) =>
    /\ RowWise
    /\ ret.value[3].data = call.z.data

C10_Witness ==
  /\ Finished
  /\ ret.outcome = "ok"
  /\ ret.transformed = {"B"}
  /\ call.entry = "ecef2eci"
  /\ NPoints = 2
  /\ NAngles = 2
  /\ Theta(1) # Theta(2)
  /\ Sin5[Theta(1) + 1] # 0
  /\ Cos5[Theta(1) + 1] # 0

\* C9: under every interleaving of concurrent calls to eci2ecef, ecef2eci and
\* eci2ecef_numpy, a finished call holds exactly what the same call returns
\* alone, the callers' arrays are never written, and once every call is
\* collected nothing of them is left.
C9_CallsIndependent ==
  /\ heap = HeapInit
  /\ \A tid \in Threads : thr[tid].pc = "done" => thr[tid].ret = Alone(tid)
  /\ (\A tid \in Threads : thr[tid].pc = "idle") => bufs = [tid \in Threads |-> <<>>]

C9_Witness ==
  /\ ~hasAstropy
  /\ thr[1].pc = "done"
  /\ thr[1].entry = "eci2ecef"
  /\ thr[1].ret.outcome = "ok"
  /\ thr[2].pc = "loop"
  /\ thr[2].i = 2
  /\ thr[2].entry = "eci2ecef_numpy"
  /\ thr[2].args = thr[1].args
  /\ thr[2].t # thr[1].t
  /\ Len(thr[2].rows) = 2

====
